---- MODULE Spec2Model ----
(***************************************************************************)
(* Keminggris dashboard: the normalization, identity, filtering and        *)
(* deduplication pipeline of the three Streamlit pages                     *)
(*   src/pages/1_Participants.py, 2_Session_Feedback.py,                   *)
(*   src/pages/3_Moderator_Feedback.py.                                    *)
(*                                                                         *)
(* Text is a sequence of one-character strings, so that strip, lower and   *)
(* substring search are computed character by character.  A missing cell   *)
(* (pandas NaN / NaT) is the one-element sequence NaN, which is no text.   *)
(* Series.astype(str) follows pandas 2.x, the version line the pages were  *)
(* written for: it turns a missing cell into the text "nan".               *)
(***************************************************************************)
EXTENDS Integers, Sequences, FiniteSets, TLC

VARIABLES
    page,             \* the page script this browser session runs
    csv,              \* content of the page's DATA_PATH file: header and rows
    cache,            \* st.cache_data entry of the page's loader (NoEntry or a table)
    data,             \* the table the loader returned to the last script run
    view,             \* the filtered view of the last script run
    session_pick,     \* 1_Participants: "Session filter" radio
    mode_pick,        \* 1_Participants: "Rows" radio
    session_day_sel,  \* 2_/3_: "Session Day" / "Session" radio
    session_sel,      \* 2_Session_Feedback: "Date" multiselect
    date_sel,         \* 3_Moderator_Feedback: "Date" multiselect
    mods_sel,         \* 3_Moderator_Feedback: "Moderator" selectbox
    err               \* the exception that ended the last script run, or "none"

vars == <<page, csv, cache, data, view, session_pick, mode_pick,
          session_day_sel, session_sel, date_sel, mods_sel, err>>

-----------------------------------------------------------------------------
(* Bounds *)

MaxRows == 2

-----------------------------------------------------------------------------
(* Text *)

NaN == <<"<NaN>">>

IsNa(x) == x = NaN

NotNa(x) == x # NaN

\* The characters of the modelled texts with their code points: space, a few
\* punctuation marks, the digits (48..57), A..Z (65..90) and a..z (97..122).
Punct == <<" ", ",", "-", ".", ";", "?", "@", "_">>

PunctCode == <<32, 44, 45, 46, 59, 63, 64, 95>>

Digits == <<"0", "1", "2", "3", "4", "5", "6", "7", "8", "9">>

Upper == <<"A", "B", "C", "D", "E", "F", "G", "H", "I", "J", "K", "L", "M",
           "N", "O", "P", "Q", "R", "S", "T", "U", "V", "W", "X", "Y", "Z">>

Lower == <<"a", "b", "c", "d", "e", "f", "g", "h", "i", "j", "k", "l", "m",
           "n", "o", "p", "q", "r", "s", "t", "u", "v", "w", "x", "y", "z">>

Range(q) == {q[i] : i \in 1..Len(q)}

IndexOf(q, c) == CHOOSE i \in 1..Len(q) : q[i] = c

Chars == Range(Punct) \cup Range(Digits) \cup Range(Upper) \cup Range(Lower)

CodePoint == [c \in Chars |->
                 IF c \in Range(Digits) THEN 47 + IndexOf(Digits, c)
                 ELSE IF c \in Range(Upper) THEN 64 + IndexOf(Upper, c)
                 ELSE IF c \in Range(Lower) THEN 96 + IndexOf(Lower, c)
                 ELSE PunctCode[IndexOf(Punct, c)]]

\* str.lower() on one character: A..Z map to a..z, everything else to itself.
LowerChar == [c \in Chars |->
                 IF c \in Range(Upper) THEN Lower[IndexOf(Upper, c)] ELSE c]

IsSpace(c) == c = " "

\* Python str.lower()
LowerText(s) == [i \in 1..Len(s) |-> LowerChar[s[i]]]

RECURSIVE LStrip(_)
LStrip(s) == IF s # <<>> /\ IsSpace(Head(s)) THEN LStrip(Tail(s)) ELSE s

RECURSIVE RStrip(_)
RStrip(s) ==
    IF s # <<>> /\ IsSpace(s[Len(s)]) THEN RStrip(SubSeq(s, 1, Len(s) - 1)) ELSE s

\* Python str.strip()
StripText(s) == RStrip(LStrip(s))

\* Python `pat in s`
ContainsText(s, pat) ==
    \E i \in 0..(Len(s) - Len(pat)) : SubSeq(s, i + 1, i + Len(pat)) = pat

\* Python str comparison s < t: lexicographic by code point.
RECURSIVE TextLess(_, _)
TextLess(s, t) ==
    IF t = <<>> THEN FALSE
    ELSE IF s = <<>> THEN TRUE
    ELSE IF Head(s) = Head(t) THEN TextLess(Tail(s), Tail(t))
    ELSE CodePoint[Head(s)] < CodePoint[Head(t)]

\* Series.str.<op>: missing stays missing.
StrLower(x) == IF IsNa(x) THEN NaN ELSE LowerText(x)

StrStrip(x) == IF IsNa(x) THEN NaN ELSE StripText(x)

\* Series.astype(str): every cell becomes text, a missing one the text "nan".
AsTypeStr(x) == IF IsNa(x) THEN <<"n", "a", "n">> ELSE x

\* Series.fillna(other)
FillNa(x, other) == IF IsNa(x) THEN other ELSE x

-----------------------------------------------------------------------------
(* Timestamps *)

\* A timestamp cell holds the text "m-d" (one digit each); a parsed timestamp is
\* the pair <<m, d>>, ordered by month, then day.  NaT is the missing timestamp.
NaT == <<0, 0>>

DigitValue(c) == IndexOf(Digits, c) - 1

\* pd.to_datetime(text, errors="coerce"): text that is no date becomes NaT.
to_datetime(x) ==
    IF /\ NotNa(x)
       /\ Len(x) = 3
       /\ x[1] \in Range(Digits) /\ x[2] = "-" /\ x[3] \in Range(Digits)
       /\ DigitValue(x[1]) >= 1 /\ DigitValue(x[3]) >= 1
    THEN <<DigitValue(x[1]), DigitValue(x[3])>>
    ELSE NaT

TsLess(a, b) == a[1] < b[1] \/ (a[1] = b[1] /\ a[2] < b[2])

\* Series.dt.to_period("M").astype(str): the month as text, "NaT" when missing.
to_period_M(ts) == IF ts = NaT THEN <<"N", "a", "T">> ELSE <<Digits[ts[1] + 1]>>

-----------------------------------------------------------------------------
(* Tables: pandas DataFrames *)

\* A table is [columns |-> set of column names, rows |-> sequence of rows]; a row
\* is a function from the columns, and from "index" (the DataFrame index label).
IndexOnly == {"index"}

EmptyTable == [columns |-> {}, rows |-> <<>>]

\* pd.read_csv(file): the header's columns, the rows labelled 0, 1, 2, ...
read_csv(file) ==
    [columns |-> file.header,
     rows |-> [i \in 1..Len(file.rows) |->
                  [c \in file.header \cup IndexOnly |->
                      IF c = "index" THEN i - 1 ELSE file.rows[i][c]]]]

\* The positions of q that satisfy Keep, in order.
RECURSIVE SelectSeq2(_, _)
SelectSeq2(q, keep) ==
    IF q = <<>> THEN <<>>
    ELSE IF 1 \in keep
         THEN <<Head(q)>> \o SelectSeq2(Tail(q), {i - 1 : i \in keep \ {1}})
         ELSE SelectSeq2(Tail(q), {i - 1 : i \in keep \ {1}})

\* df[mask] / df.loc[mask]: the rows whose position is in the mask, in order.
Loc(t, mask) == [t EXCEPT !.rows = SelectSeq2(t.rows, mask)]

IndexSet(t) == {t.rows[i]["index"] : i \in 1..Len(t.rows)}

-----------------------------------------------------------------------------
(* 1_Participants.py: load_participants *)

RenameMap ==
    ("Timestamp" :> "timestamp") @@ ("Name" :> "name") @@ ("Email" :> "email") @@
    ("Sessions Joining" :> "sessions_joining") @@ ("English Level" :> "english_level") @@
    ("Motivation" :> "motivation") @@ ("Instagram" :> "instagram") @@
    ("Discovery Source" :> "discovery_source") @@
    ("Topic Suggestion" :> "topic_suggestion") @@
    ("Email Address" :> "email_address") @@ ("Session Type" :> "session_type")

\* k.lower() for the keys k of rename_map.
KeyLower ==
    ("Timestamp" :> "timestamp") @@ ("Name" :> "name") @@ ("Email" :> "email") @@
    ("Sessions Joining" :> "sessions joining") @@ ("English Level" :> "english level") @@
    ("Motivation" :> "motivation") @@ ("Instagram" :> "instagram") @@
    ("Discovery Source" :> "discovery source") @@
    ("Topic Suggestion" :> "topic suggestion") @@
    ("Email Address" :> "email address") @@ ("Session Type" :> "session type")

\* rename_map after the loop that adds the lowercase headers found in the file,
\* restricted to the headers present: header -> canonical name.
Present(columns) ==
    LET keys == DOMAIN RenameMap
        all  == keys \cup {KeyLower[k] : k \in {j \in keys : KeyLower[j] \in columns}}
    IN  [h \in all \cap columns |->
            IF h \in keys THEN RenameMap[h]
            ELSE RenameMap[CHOOSE k \in keys : KeyLower[k] = h]]

NewName(columns, h) ==
    IF h \in DOMAIN Present(columns) THEN Present(columns)[h] ELSE h

\* df.rename(columns=present)
Rename(t) ==
    LET new == {NewName(t.columns, h) : h \in t.columns}
    IN  [columns |-> new,
         rows |-> [i \in 1..Len(t.rows) |->
                      [c \in new \cup IndexOnly |->
                          IF c = "index" THEN t.rows[i]["index"]
                          ELSE t.rows[i][CHOOSE h \in t.columns :
                                             NewName(t.columns, h) = c]]]]

KeyColumns ==
    {"timestamp", "name", "email", "sessions_joining", "english_level", "motivation",
     "instagram", "discovery_source", "topic_suggestion", "email_address",
     "session_type"}

\* "Ensure key columns exist": a column the file lacks is added, all NaN.
EnsureColumns(t) ==
    [columns |-> t.columns \cup KeyColumns,
     rows |-> [i \in 1..Len(t.rows) |->
                  [c \in t.columns \cup KeyColumns \cup IndexOnly |->
                      IF c \in DOMAIN t.rows[i] THEN t.rows[i][c] ELSE NaN]]]

CleanColumns ==
    {"name", "email", "email_address", "english_level", "discovery_source",
     "session_type", "motivation"}

\* "Cleaning": df[c] = df[c].astype(str).str.strip() for c in the cleaned columns.
Clean(r) ==
    [c \in DOMAIN r |-> IF c \in CleanColumns THEN StrStrip(AsTypeStr(r[c])) ELSE r[c]]

\* df["email"].where(df["email"].notna() & (df["email"].str.len() > 0),
\*                   df["email_address"])
participant_email(r) ==
    IF NotNa(r["email"]) /\ Len(r["email"]) > 0 THEN r["email"] ELSE r["email_address"]

\* participant_key without .str.lower()
participant_key_no_lower(r) ==
    StrStrip(FillNa(FillNa(participant_email(r), r["instagram"]), r["name"]))

\* df["participant_email"].fillna(df["instagram"]).fillna(df["name"])
\*     .str.lower().str.strip()
participant_key(r) ==
    StrStrip(StrLower(FillNa(FillNa(participant_email(r), r["instagram"]), r["name"])))

\* df["name"].where(df["name"].str.len() > 0, df["participant_email"])
display_name(r) ==
    IF NotNa(r["name"]) /\ Len(r["name"]) > 0 THEN r["name"] ELSE participant_email(r)

\* session_type_norm with the two tests in the other order: Regular first.
session_type_norm_regular_first(r) ==
    LET st_lower == FillNa(StrLower(r["session_type"]), <<>>)
    IN  IF ContainsText(st_lower, <<"r", "e", "g", "u", "l", "a", "r">>) THEN "Regular"
        ELSE IF ContainsText(st_lower, <<"f", "r", "i", "d", "a", "y">>)
             THEN "Friday"
             ELSE "Other"

\* np.where(contains "friday", "Friday", np.where(contains "regular", "Regular",
\* "Other")) over session_type.str.lower().fillna("")
session_type_norm(r) ==
    LET st_lower == FillNa(StrLower(r["session_type"]), <<>>)
    IN  IF ContainsText(st_lower, <<"f", "r", "i", "d", "a", "y">>) THEN "Friday"
        ELSE IF ContainsText(st_lower, <<"r", "e", "g", "u", "l", "a", "r">>)
             THEN "Regular"
             ELSE "Other"

DerivedColumns ==
    {"date", "month", "participant_email", "participant_key", "display_name",
     "session_type_norm", "sessions_count"}

\* The row-wise part of load_participants, lines 52-78, on a row that has the
\* key columns.
NormalizeRow(raw) ==
    LET ts == to_datetime(raw["timestamp"])
        r  == Clean([raw EXCEPT !["timestamp"] = ts])
    IN  [c \in DOMAIN r \cup DerivedColumns |->
            CASE c = "date"              -> ts
              [] c = "month"             -> to_period_M(ts)
              [] c = "participant_email" -> participant_email(r)
              [] c = "participant_key"   -> participant_key(r)
              [] c = "display_name"      -> display_name(r)
              [] c = "session_type_norm" -> session_type_norm(r)
              [] c = "sessions_count"    -> 1
              [] OTHER                   -> r[c]]

\* df.dropna(subset=['name'])
DropNaName(t) ==
    Loc(t, {i \in 1..Len(t.rows) : NotNa(t.rows[i]["name"])})

load_participants(file) ==
    LET df == EnsureColumns(Rename(read_csv(file)))
    IN  DropNaName([columns |-> df.columns \cup DerivedColumns,
                    rows |-> [i \in 1..Len(df.rows) |-> NormalizeRow(df.rows[i])]])

-----------------------------------------------------------------------------
(* st.cache_data *)

\* @st.cache_data: the entry is keyed by the loader's argument, the path; the
\* file is read only when the path has no entry.
cache_data(entries, path, loaded) ==
    IF path \in DOMAIN entries THEN entries[path] ELSE loaded

-----------------------------------------------------------------------------
(* 1_Participants.py: the view *)

\* Order of sort_values(["participant_key", "timestamp"], na_position="last"):
\* by key, then by timestamp, a missing value after every present one.
KeyLess(a, b) ==
    IF IsNa(a) THEN FALSE ELSE IF IsNa(b) THEN TRUE ELSE TextLess(a, b)

TimeLess(a, b) ==
    IF a = NaT THEN FALSE ELSE IF b = NaT THEN TRUE ELSE TsLess(a, b)

RowLess(r1, r2) ==
    \/ KeyLess(r1["participant_key"], r2["participant_key"])
    \/ /\ r1["participant_key"] = r2["participant_key"]
       /\ TimeLess(r1["timestamp"], r2["timestamp"])

\* Stable insertion: x goes before the first row that sorts after it.
RECURSIVE InsertRow(_, _)
InsertRow(x, q) ==
    IF q = <<>> THEN <<x>>
    ELSE IF RowLess(x, Head(q)) THEN <<x>> \o q
    ELSE <<Head(q)>> \o InsertRow(x, Tail(q))

RECURSIVE SortRows(_)
SortRows(q) ==
    IF q = <<>> THEN <<>>
    ELSE InsertRow(q[Len(q)], SortRows(SubSeq(q, 1, Len(q) - 1)))

\* view.sort_values(["participant_key", "timestamp"], na_position="last")
sort_values(t) == [t EXCEPT !.rows = SortRows(t.rows)]

\* drop_duplicates that drops nothing
drop_duplicates_keeps_all(t) == t

\* .drop_duplicates("participant_key", keep="first")
drop_duplicates(t) ==
    Loc(t, {i \in 1..Len(t.rows) :
               \A j \in 1..(i - 1) :
                   t.rows[j]["participant_key"] # t.rows[i]["participant_key"]})

\* view[view["session_type_norm"] == session_pick]
SessionFilter(t, pick) ==
    Loc(t, {i \in 1..Len(t.rows) : t.rows[i]["session_type_norm"] = pick})

\* The view with the two steps swapped: deduplicated first, then filtered.
ParticipantsView_dedup_first(t, pick, mode) ==
    LET unique == IF mode = "Unique participants"
                  THEN drop_duplicates(sort_values(t)) ELSE t
    IN  IF pick # "All" THEN SessionFilter(unique, pick) ELSE unique

\* Lines 109-117: the copy of data, filtered, then deduplicated.
ParticipantsView(t, pick, mode) ==
    LET filtered == IF pick # "All" THEN SessionFilter(t, pick) ELSE t
    IN  IF mode = "Unique participants"
        THEN drop_duplicates(sort_values(filtered))
        ELSE filtered

\* The columns a run of 1_Participants.py reads from the loaded table.
ParticipantsReads ==
    {"session_type_norm", "participant_key", "timestamp", "sessions_joining",
     "english_level", "discovery_source", "motivation", "display_name",
     "sessions_count"}

\* view["participant_key"].nunique(): the distinct non-missing keys of the view.
nunique(t) ==
    Cardinality({t.rows[i]["participant_key"] : i \in 1..Len(t.rows)} \ {NaN})

-----------------------------------------------------------------------------
(* 2_Session_Feedback.py: loader, filter options, mask *)

AllText == <<"A", "l", "l">>

Friday == <<"F", "r", "i", "d", "a", "y">>

Regular == <<"R", "e", "g", "u", "l", "a", "r">>

DayOptions == {AllText, Friday, Regular}

load_feedback(file) == read_csv(file)

\* The non-missing values of a column.
Unique(t, col) == {t.rows[i][col] : i \in 1..Len(t.rows)} \ {NaN}

\* session_options = ["All"] + the distinct non-missing sessions
session_options(fb) == {AllText} \cup Unique(fb, "session")

AllTrue(t) == 1..Len(t.rows)

\* Series.isin(values)
IsIn(t, col, values) == {i \in 1..Len(t.rows) : t.rows[i][col] \in values}

\* Series == value
Eq(t, col, value) == {i \in 1..Len(t.rows) : t.rows[i][col] = value}

\* mask | other
MaskOr(mask, other) == mask \cup other

\* mask & other
MaskAnd(mask, other) == mask \cap other

\* Lines 52-58 of 2_Session_Feedback.py.
FeedbackMask(fb, sel, day) ==
    LET mask == IF sel = {} \/ AllText \in sel THEN AllTrue(fb)
                ELSE IsIn(fb, "session", sel)
    IN  IF day # AllText THEN MaskAnd(mask, Eq(fb, "session_day", day)) ELSE mask

\* The columns read by lines 42-58, and by the KPIs of lines 74-85.
FeedbackMaskReads(day) ==
    {"session"} \cup (IF day # AllText THEN {"session_day"} ELSE {})

FeedbackKpiReads == {"overall", "confidence", "comfortable", "interested_next_norm"}

-----------------------------------------------------------------------------
(* 3_Moderator_Feedback.py: loader, filter options, mask *)

load_momod_feedback(file) == read_csv(file)

\* dates_all: the distinct non-missing session labels
dates_all(mf) == Unique(mf, "session_label")

\* mods_all: mf.get("moderator_name", empty).dropna().unique()
mods_all(mf) == IF "moderator_name" \in mf.columns THEN Unique(mf, "moderator_name") ELSE {}

\* Lines 31-37 of 3_Moderator_Feedback.py.
ModeratorMask(mf, day, dates, mod) ==
    LET m0 == AllTrue(mf)
        m1 == IF day # AllText THEN MaskAnd(m0, Eq(mf, "session_day", day)) ELSE m0
        m2 == IF dates # {} /\ AllText \notin dates
              THEN MaskAnd(m1, IsIn(mf, "session_label", dates)) ELSE m1
    IN  IF mod # AllText THEN MaskAnd(m2, Eq(mf, "moderator_name", mod)) ELSE m2

ModeratorMaskReads(day, mod) ==
    {"session_label"} \cup (IF day # AllText THEN {"session_day"} ELSE {})
                      \cup (IF mod # AllText THEN {"moderator_name"} ELSE {})

\* The KPIs of lines 49-60 and the attendance chart of line 73.
ModeratorKpiReads ==
    {"overall", "time_allocation", "conversation_flow", "engagement", "moderator_name"}

-----------------------------------------------------------------------------
(* The pages as a state machine: one browser session on one page *)

PARTICIPANTS_PATH == "participants.csv"

FEEDBACK_PATH == "feedback.csv"

MOMOD_PATH == "momod_feedback.csv"

ParticipantsHeader == {"Timestamp", "Name", "Email", "Session Type"}

\* The signup rows the export can hold.
SignupRows ==
    {("Timestamp" :> ts) @@ ("Name" :> <<"N", "i">>) @@ ("Email" :> em) @@
     ("Session Type" :> st) :
        ts \in {<<"?">>, <<"1", "-", "2">>, <<"2", "-", "1">>},
        em \in {NaN, <<"A", "@", "x", ".", "c", "o", "m">>,
                <<"a", "@", "x", ".", "c", "o", "m", " ">>},
        st \in {<<"F", "r", "i", "d", "a", "y">>, <<"r", "e", "g", "u", "l", "a", "r">>}}

FeedbackHeader ==
    {"session", "session_day", "overall", "confidence", "comfortable",
     "interested_next_norm"}

SessionLabels == {<<"F", "3">>, <<"S", "4">>}

\* The feedback rows the export can hold.  A rating cell holds hundredths of a
\* point: 500 is the rating 5, 425 the rating 4.25.
FeedbackRows ==
    {("session" :> s) @@ ("session_day" :> d) @@ ("overall" :> 500) @@
     ("confidence" :> 400) @@ ("comfortable" :> 400) @@
     ("interested_next_norm" :> <<"Y", "e", "s">>) :
        s \in SessionLabels \cup {NaN}, d \in {NaN, Friday, Regular}}

MomodHeader ==
    {"session_label", "session_day", "moderator_name", "overall", "time_allocation",
     "conversation_flow", "engagement"}

\* The moderator feedback rows the export can hold.
MomodRows ==
    {("session_label" :> s) @@ ("session_day" :> d) @@ ("moderator_name" :> m) @@
     ("overall" :> 500) @@ ("time_allocation" :> 400) @@
     ("conversation_flow" :> 400) @@ ("engagement" :> 400) :
        s \in SessionLabels, d \in {Friday, Regular}, m \in {NaN, <<"A", "l">>}}

SessionPicks == {"All", "Regular", "Friday"}

ModePicks == {"All signups", "Unique participants"}

InitWidgets ==
    /\ session_pick = "All"
    /\ mode_pick = "All signups"
    /\ session_day_sel = AllText
    /\ session_sel = {AllText}
    /\ date_sel = {AllText}
    /\ mods_sel = AllText

InitSession ==
    /\ cache = <<>>
    /\ data = EmptyTable
    /\ view = EmptyTable
    /\ err = "none"
    /\ InitWidgets

Init ==
    /\ InitSession
    /\ \/ page = "participants" /\ csv = [header |-> ParticipantsHeader, rows |-> <<>>]
       \/ page = "feedback" /\ csv = [header |-> FeedbackHeader, rows |-> <<>>]
       \/ page = "momod" /\ csv = [header |-> MomodHeader, rows |-> <<>>]

\* The run filtering the loaded table in place: the view replaces it.
HeldInPlace(loaded, v) == v

\* The table the session holds after a run: the loader's table.  The view is
\* built from data.copy() / fb.loc[mask].copy(), so no step of the run writes
\* into the loaded table.
Held(loaded, v) == loaded

\* One run of 1_Participants.py, top to bottom, with the widget values given.
RunParticipants(pick, mode) ==
    LET loaded == cache_data(cache, PARTICIPANTS_PATH, load_participants(csv))
        v      == ParticipantsView(loaded, pick, mode)
        ok     == ParticipantsReads \subseteq loaded.columns
    IN  /\ cache' = (PARTICIPANTS_PATH :> Held(loaded, v))
        /\ data' = Held(loaded, v)
        /\ view' = IF ok THEN v ELSE EmptyTable
        /\ err' = IF ok THEN "none" ELSE "KeyError"
        /\ session_pick' = pick
        /\ mode_pick' = mode
        /\ UNCHANGED <<page, csv, session_day_sel, session_sel, date_sel, mods_sel>>

\* The page is opened or rerun with the widgets as they are.
Rerun ==
    /\ page = "participants"
    /\ RunParticipants(session_pick, mode_pick)

\* The user picks a session filter; Streamlit reruns the script.
PickSession ==
    /\ page = "participants"
    /\ PARTICIPANTS_PATH \in DOMAIN cache
    /\ \E p \in SessionPicks \ {session_pick} : RunParticipants(p, mode_pick)

\* The user picks the row mode; Streamlit reruns the script.
PickMode ==
    /\ page = "participants"
    /\ PARTICIPANTS_PATH \in DOMAIN cache
    /\ \E m \in ModePicks \ {mode_pick} : RunParticipants(session_pick, m)

\* One run of 2_Session_Feedback.py with the widget values given.
RunFeedback(sel, day) ==
    LET loaded == cache_data(cache, FEEDBACK_PATH, load_feedback(csv))
        ok1    == FeedbackMaskReads(day) \subseteq loaded.columns
        v      == IF ok1 THEN Loc(loaded, FeedbackMask(loaded, sel, day)) ELSE EmptyTable
        ok     == ok1 /\ FeedbackKpiReads \subseteq loaded.columns
    IN  /\ cache' = (FEEDBACK_PATH :> Held(loaded, v))
        /\ data' = Held(loaded, v)
        /\ view' = v
        /\ err' = IF ok THEN "none" ELSE "KeyError"
        /\ session_sel' = sel
        /\ session_day_sel' = day
        /\ UNCHANGED <<page, csv, session_pick, mode_pick, date_sel, mods_sel>>

RerunFeedback ==
    /\ page = "feedback"
    /\ RunFeedback(session_sel, session_day_sel)

\* The user picks a session day.
PickSessionDay ==
    /\ page = "feedback"
    /\ FEEDBACK_PATH \in DOMAIN cache
    /\ "session" \in data.columns
    /\ \E d \in DayOptions \ {session_day_sel} : RunFeedback(session_sel, d)

\* The user changes the "Date" multiselect to any set of the options offered.
PickDates ==
    /\ page = "feedback"
    /\ FEEDBACK_PATH \in DOMAIN cache
    /\ "session" \in data.columns
    /\ \E sel \in (SUBSET session_options(data)) \ {session_sel} :
           RunFeedback(sel, session_day_sel)

\* One run of 3_Moderator_Feedback.py with the widget values given.
RunModerator(day, dates, mod) ==
    LET loaded == cache_data(cache, MOMOD_PATH, load_momod_feedback(csv))
        ok1    == ModeratorMaskReads(day, mod) \subseteq loaded.columns
        v      == IF ok1 THEN Loc(loaded, ModeratorMask(loaded, day, dates, mod))
                  ELSE EmptyTable
        ok     == ok1 /\ ModeratorKpiReads \subseteq loaded.columns
    IN  /\ cache' = (MOMOD_PATH :> Held(loaded, v))
        /\ data' = Held(loaded, v)
        /\ view' = v
        /\ err' = IF ok THEN "none" ELSE "KeyError"
        /\ session_day_sel' = day
        /\ date_sel' = dates
        /\ mods_sel' = mod
        /\ UNCHANGED <<page, csv, session_pick, mode_pick, session_sel>>

RerunModerator ==
    /\ page = "momod"
    /\ RunModerator(session_day_sel, date_sel, mods_sel)

PickModeratorDay ==
    /\ page = "momod"
    /\ MOMOD_PATH \in DOMAIN cache
    /\ "session_label" \in data.columns
    /\ \E d \in DayOptions \ {session_day_sel} : RunModerator(d, date_sel, mods_sel)

PickModeratorDates ==
    /\ page = "momod"
    /\ MOMOD_PATH \in DOMAIN cache
    /\ "session_label" \in data.columns
    /\ \E sel \in (SUBSET ({AllText} \cup dates_all(data))) \ {date_sel} :
           RunModerator(session_day_sel, sel, mods_sel)

PickModerator ==
    /\ page = "momod"
    /\ MOMOD_PATH \in DOMAIN cache
    /\ "session_label" \in data.columns
    /\ \E m \in ({AllText} \cup mods_all(data)) \ {mods_sel} :
           RunModerator(session_day_sel, date_sel, m)

RowsOf(p) ==
    CASE p = "participants" -> SignupRows
      [] p = "feedback"     -> FeedbackRows
      [] p = "momod"        -> MomodRows

\* A new response: the export on disk gains a row.  Nothing else changes until
\* the script runs again.
AppendRow ==
    /\ Len(csv.rows) < MaxRows
    /\ \E r \in RowsOf(page) : csv' = [csv EXCEPT !.rows = Append(@, r)]
    /\ UNCHANGED <<page, cache, data, view, session_pick, mode_pick,
                   session_day_sel, session_sel, date_sel, mods_sel, err>>

RunStep ==
    \/ Rerun \/ PickSession \/ PickMode
    \/ RerunFeedback \/ PickSessionDay \/ PickDates
    \/ RerunModerator \/ PickModeratorDay \/ PickModeratorDates \/ PickModerator

Next == RunStep \/ AppendRow

Spec == Init /\ [][Next]_vars

-----------------------------------------------------------------------------
(* Single records with varied text: the row-wise functions of load_participants *)

RecordHeader ==
    {"Timestamp", "Name", "Email", "Email Address", "Instagram", "Session Type"}

\* Headers of an export: the full one, and one without the two optional
\* identity columns.
RecordHeaders == {RecordHeader, RecordHeader \ {"Email Address", "Instagram"}}

Blank == <<" ">>

RecordRow(nm, em, ea, ig, st) ==
    ("Timestamp" :> <<"1", "-", "2">>) @@ ("Name" :> nm) @@ ("Email" :> em) @@
    ("Email Address" :> ea) @@ ("Instagram" :> ig) @@ ("Session Type" :> st)

\* Rows that vary the four identity fields: missing, blank, mixed case and
\* surrounding whitespace.
IdentityRows ==
    {RecordRow(nm, em, ea, ig, <<"r", "e", "g", "u", "l", "a", "r">>) :
        nm \in {NaN, Blank, <<"N", "i", " ", "L">>},
        em \in {NaN, Blank, <<"A", "@", "x", ".", "c", "o", "m">>,
                <<"a", "@", "x", ".", "c", "o", "m", " ">>, <<" ", "B", "@", "y">>},
        ea \in {NaN, Blank, <<"c", "@", "Z", " ">>},
        ig \in {NaN, <<"@", "H", "a", "n">>}}

SessionTypeTexts ==
    {NaN, Blank,
     <<"F", "r", "i", "d", "a", "y">>,
     <<"F", "R", "I", "D", "A", "Y", " ", "r", "e", "g", "u", "l", "a", "r">>,
     <<"r", "e", "g", "u", "l", "a", "r", " ", "f", "r", "i", "d", "a", "y">>,
     <<" ", "R", "e", "g", "u", "l", "a", "r", " ">>,
     <<"i", "r", "r", "e", "g", "u", "l", "a", "r">>,
     <<"f", "r", "i", " ", "d", "a", "y">>,
     <<"S", "u", "n", "d", "a", "y">>,
     <<"n", "a", "n">>}

SessionTypeRows ==
    {RecordRow(<<"N", "i">>, <<"a", "@", "x">>, NaN, NaN, st) : st \in SessionTypeTexts}

Restrict(f, dom) == [c \in dom |-> f[c]]

InitRecord ==
    /\ InitSession
    /\ page = "participants"
    /\ \E h \in RecordHeaders, r \in IdentityRows \cup SessionTypeRows :
           csv = [header |-> h, rows |-> <<Restrict(r, h)>>]

NextRecord == Rerun \/ PickSession \/ PickMode

SpecRecord == InitRecord /\ [][NextRecord]_vars

\* The raw row of the export that a row of the loaded table came from.
RawOf(r) == csv.rows[r["index"] + 1]

RawField(raw, f) == IF f \in DOMAIN raw THEN raw[f] ELSE NaN

DataRows == {data.rows[i] : i \in 1..Len(data.rows)}

ViewRows == {view.rows[i] : i \in 1..Len(view.rows)}

HasRun(path) == path \in DOMAIN cache

-----------------------------------------------------------------------------
(* C1 *)

IdentityOrder == <<"Email", "Email Address", "Instagram", "Name">>

Usable(x) == NotNa(x) /\ StripText(x) # <<>>

\* The key as specified: the first identity field, in priority order,
\* with a non-empty trimmed value, trimmed and lowercased; none gives no key.
ClaimedKey(raw) ==
    LET usable == {k \in 1..Len(IdentityOrder) : Usable(RawField(raw, IdentityOrder[k]))}
        first  == CHOOSE k \in usable : \A j \in usable : k <= j
    IN  IF usable = {} THEN NaN
        ELSE LowerText(StripText(RawField(raw, IdentityOrder[first])))

\* C1: every loaded participant record has as participant_key the lowercased,
\* trimmed value of the first of primary email, secondary email, instagram
\* handle, display name that is non-empty once trimmed (missing counts as empty).
C1_KeyIsFirstNonEmptyIdentity ==
    \A r \in DataRows : r["participant_key"] = ClaimedKey(RawOf(r))

-----------------------------------------------------------------------------
(* C2 *)

\* C2: in the loaded table every record with an identifying field has a
\* non-null participant_key, and a record with an empty display name and no
\* other identifier is not in the table.
C2_KeyedOrDropped ==
    HasRun(PARTICIPANTS_PATH) =>
        \A j \in 1..Len(csv.rows) :
            LET raw  == csv.rows[j]
                rows == {r \in DataRows : r["index"] = j - 1}
            IN  IF ClaimedKey(raw) # NaN
                THEN \A r \in rows : NotNa(r["participant_key"])
                ELSE rows = {}

-----------------------------------------------------------------------------
(* C6 *)

\* Text that contains the lowercase pattern in any letter case.
ContainsAnyCase(x, pat) ==
    /\ NotNa(x)
    /\ \E i \in 0..(Len(x) - Len(pat)) :
           \A j \in 1..Len(pat) : LowerChar[x[i + j]] = pat[j]

ClaimedSessionType(x) ==
    IF ContainsAnyCase(x, <<"f", "r", "i", "d", "a", "y">>) THEN "Friday"
    ELSE IF ContainsAnyCase(x, <<"r", "e", "g", "u", "l", "a", "r">>) THEN "Regular"
    ELSE "Other"

\* C6: for every session-type cell, missing, blank and unmatched text included,
\* session_type_norm is one of Friday, Regular, Other: Friday when the text
\* contains "friday" in any letter case (also next to "regular"), else Regular
\* when it contains "regular", else Other.
C6_SessionTypeTotal ==
    \A r \in DataRows :
        /\ r["session_type_norm"] \in {"Friday", "Regular", "Other"}
        /\ r["session_type_norm"] = ClaimedSessionType(RawField(RawOf(r), "Session Type"))

\* A loaded record whose text holds both words, "regular" first, and is Friday;
\* the page also holds the missing cell's record, classified Other.
C6_Witness ==
    \E r \in DataRows :
        LET x == RawField(RawOf(r), "Session Type")
        IN  /\ ContainsAnyCase(x, <<"r", "e", "g", "u", "l", "a", "r">>)
            /\ ContainsAnyCase(x, <<"f", "r", "i", "d", "a", "y">>)
            /\ r["session_type_norm"] = "Friday"

-----------------------------------------------------------------------------
(* C3, C4: the "Unique participants" mode *)

OnParticipants == page = "participants" /\ HasRun(PARTICIPANTS_PATH)

\* The rows of the loaded table that pass the session filter.
FilteredRows ==
    {r \in DataRows : session_pick = "All" \/ r["session_type_norm"] = session_pick}

KeysOf(rows) == {r["participant_key"] : r \in rows} \ {NaN}

\* C3: in "Unique participants" mode the view has as many rows as the filtered
\* dataset has distinct non-null participant_key values (never more), and the
\* "Unique participants" KPI equals the "All Signups" KPI.
C3_UniqueRowCount ==
    (OnParticipants /\ mode_pick = "Unique participants") =>
        /\ Len(view.rows) <= Cardinality(KeysOf(FilteredRows))
        /\ Len(view.rows) = Cardinality(KeysOf(FilteredRows))
        /\ nunique(view) = Len(view.rows)

\* Two filtered signups of one participant, of which the unique view keeps one.
C3_Witness ==
    /\ OnParticipants /\ mode_pick = "Unique participants"
    /\ Cardinality(FilteredRows) = 2
    /\ Cardinality(KeysOf(FilteredRows)) = 1
    /\ Len(view.rows) = 1

\* C4: in "Unique participants" mode the view holds, for each participant_key of
\* the rows that pass the session filter, exactly one row, taken from those
\* filtered rows, and none of them has an earlier timestamp (a missing
\* timestamp counts as latest).
C4_EarliestWithinFilter ==
    (OnParticipants /\ mode_pick = "Unique participants") =>
        /\ ViewRows \subseteq FilteredRows
        /\ \A k \in KeysOf(FilteredRows) :
               /\ Cardinality({i \in 1..Len(view.rows) :
                                  view.rows[i]["participant_key"] = k}) = 1
               /\ \A v \in ViewRows, r \in FilteredRows :
                      (v["participant_key"] = k /\ r["participant_key"] = k)
                          => ~TimeLess(r["timestamp"], v["timestamp"])

\* The kept row is not the participant's globally earliest signup: that one is
\* of another session type and was filtered out before deduplication.
C4_Witness ==
    /\ OnParticipants /\ mode_pick = "Unique participants" /\ session_pick # "All"
    /\ \E v \in ViewRows, g \in DataRows :
           /\ g["participant_key"] = v["participant_key"]
           /\ g["session_type_norm"] # session_pick
           /\ TimeLess(g["timestamp"], v["timestamp"])

-----------------------------------------------------------------------------
(* C10 *)

\* Two raw emails that differ at most in letter case and surrounding whitespace.
SameEmail(e1, e2) ==
    Usable(e1) /\ Usable(e2) /\ LowerText(StripText(e1)) = LowerText(StripText(e2))

\* C10: a non-null participant_key is lowercase and trimmed, resolving the
\* normalized record again gives the same key, and two rows whose emails differ
\* only in letter case or surrounding whitespace share a key and are one row of
\* the unique view.
C10_KeyCanonical ==
    OnParticipants =>
        /\ \A r \in DataRows :
               NotNa(r["participant_key"]) =>
                   /\ LowerText(r["participant_key"]) = r["participant_key"]
                   /\ StripText(r["participant_key"]) = r["participant_key"]
                   /\ participant_key(Clean(r)) = r["participant_key"]
        /\ \A r1, r2 \in DataRows :
               SameEmail(RawOf(r1)["Email"], RawOf(r2)["Email"]) =>
                   /\ r1["participant_key"] = r2["participant_key"]
                   /\ (mode_pick = "Unique participants" /\ r1 # r2)
                          => ~({r1, r2} \subseteq ViewRows)

\* The scenario: "A@x.com" and "a@x.com " loaded, the unique view counts one.
C10_Witness ==
    /\ OnParticipants /\ mode_pick = "Unique participants" /\ session_pick = "All"
    /\ Len(data.rows) = 2
    /\ RawOf(data.rows[1])["Email"] = <<"A", "@", "x", ".", "c", "o", "m">>
    /\ RawOf(data.rows[2])["Email"] = <<"a", "@", "x", ".", "c", "o", "m", " ">>
    /\ data.rows[1]["participant_key"] = <<"a", "@", "x", ".", "c", "o", "m">>
    /\ nunique(view) = 1
    /\ Len(view.rows) = 1

-----------------------------------------------------------------------------
(* C8 *)

PathOf(p) ==
    CASE p = "participants" -> PARTICIPANTS_PATH
      [] p = "feedback"     -> FEEDBACK_PATH
      [] p = "momod"        -> MOMOD_PATH

\* What parsing the file now would give.
LoadNow(p, file) ==
    CASE p = "participants" -> load_participants(file)
      [] p = "feedback"     -> load_feedback(file)
      [] p = "momod"        -> load_momod_feedback(file)

\* C8: every load returns the table of the current source content: the cached
\* table while the source is unchanged, a table built from the new content once
\* it changed.
C8_LoadIsCurrent == [][RunStep => data' = LoadNow(page, csv)]_vars

-----------------------------------------------------------------------------
(* C9 *)

-----------------------------------------------------------------------------
(* C5 *)

\* df[predicate]: one filter applied on its own.
Where(t, P(_)) == Loc(t, {i \in 1..Len(t.rows) : P(t.rows[i])})

DayPred(r) == session_day_sel = AllText \/ r["session_day"] = session_day_sel

SessionPred(r) ==
    session_sel = {} \/ AllText \in session_sel \/ r["session"] \in session_sel

LabelPred(r) ==
    date_sel = {} \/ AllText \in date_sel \/ r["session_label"] \in date_sel

ModeratorPred(r) == mods_sel = AllText \/ r["moderator_name"] = mods_sel

\* C5: on both feedback pages the view is exactly the rows of the loaded table
\* that satisfy every active filter (session day, date set, moderator), and it
\* is what applying the filters one after the other gives, in every order.
C5_FiltersConjunctive ==
    /\ (page = "feedback" /\ HasRun(FEEDBACK_PATH) /\ err = "none") =>
           /\ ViewRows = {r \in DataRows : DayPred(r) /\ SessionPred(r)}
           /\ view = Where(Where(data, DayPred), SessionPred)
           /\ view = Where(Where(data, SessionPred), DayPred)
    /\ (page = "momod" /\ HasRun(MOMOD_PATH) /\ err = "none") =>
           /\ ViewRows = {r \in DataRows :
                             DayPred(r) /\ LabelPred(r) /\ ModeratorPred(r)}
           /\ view = Where(Where(Where(data, DayPred), LabelPred), ModeratorPred)
           /\ view = Where(Where(Where(data, DayPred), ModeratorPred), LabelPred)
           /\ view = Where(Where(Where(data, LabelPred), DayPred), ModeratorPred)
           /\ view = Where(Where(Where(data, LabelPred), ModeratorPred), DayPred)
           /\ view = Where(Where(Where(data, ModeratorPred), DayPred), LabelPred)
           /\ view = Where(Where(Where(data, ModeratorPred), LabelPred), DayPred)

\* All three filters of the moderator page active, each row of the table
\* failing a different one or none: the view keeps one row of two.
C5_Witness ==
    /\ page = "momod" /\ HasRun(MOMOD_PATH) /\ err = "none"
    /\ session_day_sel # AllText
    /\ date_sel # {} /\ AllText \notin date_sel
    /\ mods_sel # AllText
    /\ Len(data.rows) = 2
    /\ Len(view.rows) = 1

-----------------------------------------------------------------------------
(* C7: exports with any subset of the expected headers *)

\* The spellings of some of the headers each loader expects.
Spellings(p) ==
    CASE p = "participants" ->
             {{"Email", "email", "EMAIL"}, {"Name", "name", "NAME"},
              {"Session Type", "session type", "SESSION TYPE"}}
      [] p = "feedback" ->
             {{"session", "Session"}, {"session_day"}, {"overall", "Overall"},
              {"confidence"}, {"comfortable"}, {"interested_next_norm"}}
      [] p = "momod" ->
             {{"session_label"}, {"session_day"}, {"moderator_name"},
              {"overall", "Overall"}, {"time_allocation"}, {"conversation_flow"},
              {"engagement"}}

\* Any non-empty subset of the expected headers, each in at most one spelling.
SchemaHeaders(p) ==
    {h \in SUBSET (UNION Spellings(p)) :
        h # {} /\ \A g \in Spellings(p) : Cardinality(h \cap g) <= 1}

InitSchema ==
    /\ InitSession
    /\ page \in {"participants", "feedback", "momod"}
    /\ \E h \in SchemaHeaders(page) :
           csv = [header |-> h, rows |-> <<[c \in h |-> <<"x">>]>>]

SpecSchema == InitSchema /\ [][RunStep]_vars

\* The canonical fields each page's filters and KPIs read.
CanonicalFields(p) ==
    CASE p = "participants" -> ParticipantsReads
      [] p = "feedback" -> {"session", "session_day"} \cup FeedbackKpiReads
      [] p = "momod" ->
             {"session_label", "session_day", "moderator_name"} \cup ModeratorKpiReads

\* C7: for each source and any subset of the expected headers, the loaded table
\* has every canonical field the filters and aggregations read, and no run
\* fails on a field access.
C7_CanonicalFieldsPresent ==
    HasRun(PathOf(page)) =>
        /\ CanonicalFields(page) \subseteq data.columns
        /\ err = "none"

-----------------------------------------------------------------------------
(* Exports with the chart columns: the aggregations a run draws from its view *)

\* A missing numeric cell (float NaN) of a rating column.
NaNScore == -1

ChartSignupHeader ==
    {"Timestamp", "Name", "Email", "Motivation", "Discovery Source", "Session Type"}

ChartSignupRow(ts, nm, em, mo, ds, st) ==
    ("Timestamp" :> ts) @@ ("Name" :> nm) @@ ("Email" :> em) @@ ("Motivation" :> mo) @@
    ("Discovery Source" :> ds) @@ ("Session Type" :> st)

\* Signups of three people, with missing, unparseable and parsed timestamps and
\* missing and repeated motivation and discovery answers.
ChartSignupRows ==
    {ChartSignupRow(a[1], b[1], b[2], a[2], a[3], a[4]) :
        a \in {<<NaN, NaN, NaN, Friday>>,
               <<<<"?">>, <<"f", "u", "n">>, <<"I", "G">>, Friday>>,
               <<<<"1", "-", "2">>, <<"j", "o", "b">>, <<"a", "d">>, Regular>>,
               <<<<"2", "-", "1">>, <<"f", "u", "n">>, <<"a", "d">>, Regular>>},
        b \in {<<<<"N", "i">>, <<"a", "@", "x">>>>,
               <<<<"A", "l">>, <<"A", "@", "x", " ">>>>,
               <<<<"B", "o">>, <<"b", "@", "y">>>>}}

Rows0(S) == UNION {[1..n -> S] : n \in 0..MaxRows}

ChartFeedbackHeader ==
    {"session", "date", "session_day", "overall", "confidence", "comfortable",
     "interested_next_norm", "suggestions", "sentiment", "themes"}

Positive == <<"P", "o", "s", "i", "t", "i", "v", "e">>

Negative == <<"N", "e", "g", "a", "t", "i", "v", "e">>

Neutral == <<"N", "e", "u", "t", "r", "a", "l">>

Pacing == <<"P", "a", "c", "i", "n", "g">>

Content == <<"C", "o", "n", "t", "e", "n", "t">>

ChartFeedbackRow(s, dt, d, ov, cf, se, th) ==
    ("session" :> s) @@ ("date" :> dt) @@ ("session_day" :> d) @@ ("overall" :> ov) @@
    ("confidence" :> cf) @@ ("comfortable" :> 400) @@
    ("interested_next_norm" :> <<"Y", "e", "s">>) @@ ("suggestions" :> <<"o", "k">>) @@
    ("sentiment" :> se) @@ ("themes" :> th)

\* Feedback of two sessions: ratings missing, whole and fractional; dates
\* missing, equal and different; session day and sentiment missing; themes
\* fields with repeated tags, blanks around tags and empty pieces.
ChartFeedbackRows ==
    {ChartFeedbackRow(<<"F", "3">>, <<"1", "-", "2">>, Friday, 500, NaNScore, Positive,
                      Pacing \o <<";", " ">> \o Content \o <<" ", ";">> \o Pacing),
     ChartFeedbackRow(<<"F", "3">>, <<"1", "-", "2">>, Friday, 425, 400, Negative,
                      <<" ">> \o Pacing \o <<";">> \o Content),
     ChartFeedbackRow(<<"F", "3">>, <<"1", "-", "1">>, NaN, 300, 350, Neutral, Content),
     ChartFeedbackRow(<<"S", "4">>, <<"1", "-", "2">>, Regular, 500, 450, NaN, NaN),
     ChartFeedbackRow(<<"S", "4">>, <<"2", "-", "1">>, Regular, NaNScore, NaNScore,
                      Positive, Content \o <<";", " ">> \o Pacing \o <<" ">>),
     ChartFeedbackRow(<<"S", "4">>, NaN, Regular, 400, 400, Positive, <<" ", ";">>),
     ChartFeedbackRow(NaN, <<"2", "-", "1">>, Friday, 475, 500, Negative,
                      Content \o Pacing)}

ChartMomodHeader ==
    {"session_label", "date_parsed", "session_day", "moderator_name", "overall",
     "time_allocation", "conversation_flow", "engagement"}

ChartMomodRow(s, dt, d, m, ov, ta) ==
    ("session_label" :> s) @@ ("date_parsed" :> dt) @@ ("session_day" :> d) @@
    ("moderator_name" :> m) @@ ("overall" :> ov) @@ ("time_allocation" :> ta) @@
    ("conversation_flow" :> 400) @@ ("engagement" :> 400)

\* Moderator feedback of two sessions by two moderators, with missing ratings,
\* dates and names, and ratings half way between two whole ones.
ChartMomodRows ==
    {ChartMomodRow(<<"F", "3">>, <<"1", "-", "2">>, Friday, <<"B", "o">>, 500, NaNScore),
     ChartMomodRow(<<"F", "3">>, <<"1", "-", "2">>, Friday, <<"A", "l">>, 450, 400),
     ChartMomodRow(<<"S", "4">>, <<"2", "-", "1">>, Regular, <<"B", "o">>, NaNScore, 350),
     ChartMomodRow(<<"S", "4">>, <<"1", "-", "2">>, Regular, NaN, 250, 400),
     ChartMomodRow(<<"S", "4">>, NaN, Regular, <<"A", "l">>, 400, 400)}

InitCharts ==
    /\ InitSession
    /\ \/ /\ page = "participants"
          /\ \E q \in Rows0(ChartSignupRows) :
                 csv = [header |-> ChartSignupHeader, rows |-> q]
       \/ /\ page = "feedback"
          /\ \E q \in Rows0(ChartFeedbackRows) :
                 csv = [header |-> ChartFeedbackHeader, rows |-> q]
       \/ /\ page = "momod"
          /\ \E q \in Rows0(ChartMomodRows) :
                 csv = [header |-> ChartMomodHeader, rows |-> q]

SpecCharts == InitCharts /\ [][RunStep]_vars

-----------------------------------------------------------------------------
(* Grouped counts *)

\* A column of a table: a pandas Series.
Series(t, col) == [i \in 1..Len(t.rows) |-> t.rows[i][col]]

CountOf(s, x) == Cardinality({i \in 1..Len(s) : s[i] = x})

Min(a, b) == IF a < b THEN a ELSE b

\* DataFrame.head(n)
head(q, n) == SubSeq(q, 1, Min(n, Len(q)))

Perms(n) == {p \in [1..n -> 1..n] : \A i, j \in 1..n : p[i] = p[j] => i = j}

\* The texts of S in ascending order.
Ascending(S) ==
    CHOOSE q \in [1..Cardinality(S) -> S] :
        \A i, j \in 1..Cardinality(S) : i < j => TextLess(q[i], q[j])

\* The distinct values of q in the order of their first appearance.
RECURSIVE FirstSeen(_)
FirstSeen(q) ==
    IF q = <<>> THEN <<>>
    ELSE LET d == FirstSeen(SubSeq(q, 1, Len(q) - 1))
         IN  IF q[Len(q)] \in Range(d) THEN d ELSE Append(d, q[Len(q)])

\* Series.dropna() of a text column
dropna(s) == SelectSeq(s, NotNa)

Counted(s, labels) ==
    [i \in 1..Len(labels) |-> [label |-> labels[i], count |-> CountOf(s, labels[i])]]

\* df.groupby(col).size().reset_index(name="count"): one row per non-missing
\* value of the column, in ascending order of the value.
groupby_size(s) == Counted(s, Ascending(Range(s) \ {NaN}))

\* sort_values("count", ascending=False) on the one column, with the default
\* kind="quicksort", which pandas documents as not stable: the counts descend
\* and rows of equal count come in whatever order the sort leaves them.
sort_values_count(q) ==
    {[i \in 1..Len(q) |-> q[p[i]]] :
        p \in {p \in Perms(Len(q)) :
                  \A i \in 1..(Len(q) - 1) : q[p[i]].count >= q[p[i + 1]].count}}

\* Series.value_counts(): the non-missing values counted, then sorted by count
\* descending with that same sort.
value_counts(s) == sort_values_count(Counted(s, FirstSeen(dropna(s))))

RECURSIVE SumCount(_)
SumCount(q) == IF q = <<>> THEN 0 ELSE Head(q).count + SumCount(Tail(q))

\* transform_joinaggregate(total='sum(count)') and pct = count / total: the
\* share of a row is the fraction count / total.
joinaggregate(q) ==
    [i \in 1..Len(q) |->
        [label |-> q[i].label, count |-> q[i].count, total |-> SumCount(q)]]

Unknown == <<"U", "n", "k", "n", "o", "w", "n">>

\* Series.replace({"nan": np.nan})
ReplaceNan(x) == IF x = <<"n", "a", "n">> THEN NaN ELSE x

\* Line 241: .head(20)
MotivationTop == 20

\* Lines 237-242: the motivation table, in each order the sort can leave it;
\* no table when the guard of line 237 fails.
mot(v) ==
    LET m == Series(v, "motivation")
    IN  IF \E i \in 1..Len(m) : NotNa(m[i])
        THEN {head(o, MotivationTop) :
                 o \in sort_values_count(
                          groupby_size([i \in 1..Len(m) |->
                                           FillNa(ReplaceNan(m[i]), Unknown)]))}
        ELSE {<<>>}

\* Lines 157-161: the discovery source table.
src(v) ==
    LET d == Series(v, "discovery_source")
    IN  IF \E i \in 1..Len(d) : NotNa(d[i])
        THEN sort_values_count(
                 groupby_size([i \in 1..Len(d) |-> FillNa(d[i], Unknown)]))
        ELSE {<<>>}

\* The labels of session_type_norm as texts.
NormText ==
    ("Friday" :> Friday) @@ ("Regular" :> Regular) @@
    ("Other" :> <<"O", "t", "h", "e", "r">>)

\* Lines 182-186: the session type table.
stype_df(v) ==
    sort_values_count(
        groupby_size([i \in 1..Len(v.rows) |-> NormText[v.rows[i]["session_type_norm"]]]))

\* 2_Session_Feedback.py line 229: the sentiment table.
sent_counts(v) == value_counts(Series(v, "sentiment"))

\* 3_Moderator_Feedback.py line 73: the attendance table.
mod_counts(v) == value_counts(Series(v, "moderator_name"))

\* The charts whose rows carry a percentage, on the page being shown.
PctTables ==
    CASE page = "participants" -> mot(view)
      [] page = "feedback"     -> sent_counts(view)
      [] page = "momod"        -> mod_counts(view)

ChartsDrawn == HasRun(PathOf(page)) /\ err = "none"

-----------------------------------------------------------------------------
(* C12 *)

\* C12: in every chart of grouped counts with percentages, the percentage of a
\* group is its count over the number of rows of the filtered view, so the
\* counts of the groups add up to the number of rows of the view.
C12_PercentOfView ==
    ChartsDrawn =>
        \A o \in PctTables :
            /\ \A i \in 1..Len(o) : joinaggregate(o)[i].total = Len(view.rows)
            /\ SumCount(o) = Len(view.rows)

-----------------------------------------------------------------------------
(* Rating distributions *)

\* Series.round(1) and Series.round(0) on hundredths: the units rounded to.
Tenth == 10

Whole == 100

\* np.round: to the nearest multiple of the unit, a value half way between two
\* going to the even one.
Round(x, unit) ==
    LET q == x \div unit
        r == x % unit
    IN  IF 2 * r < unit THEN q * unit
        ELSE IF 2 * r > unit THEN (q + 1) * unit
        ELSE IF q % 2 = 0 THEN q * unit
        ELSE (q + 1) * unit

\* Series.round(decimals): a missing rating stays missing.
RoundScore(x, unit) == IF x = NaNScore THEN NaNScore ELSE Round(x, unit)

\* The values value_counts(dropna=False) would count: the missing one too.
ScoreValues_keep_nan(r) == Range(r)

\* The values value_counts() counts: the non-missing ones.
ScoreValues(r) == Range(r) \ {NaNScore}

\* The numbers of S in ascending order.
AscendingNum(S) ==
    CHOOSE q \in [1..Cardinality(S) -> S] :
        \A i, j \in 1..Cardinality(S) : i < j => q[i] < q[j]

\* d = Series.round(decimals).value_counts().reset_index(), columns score and
\* count, then d.sort_values("score"): one row per rounded rating, ascending.
ScoreTable(s, unit) ==
    LET r == [i \in 1..Len(s) |-> RoundScore(s[i], unit)]
    IN  Counted(r, AscendingNum(ScoreValues(r)))

AnyScore(s) == \E i \in 1..Len(s) : s[i] # NaNScore

\* 2_Session_Feedback.py score_hist: the chart rows, none when st.info is shown.
score_hist(v, metric_key) ==
    IF AnyScore(Series(v, metric_key))
    THEN joinaggregate(ScoreTable(Series(v, metric_key), Tenth))
    ELSE <<>>

\* 3_Moderator_Feedback.py dist: the chart rows, none when st.info is shown.
dist(v, col) ==
    IF col \notin v.columns \/ ~AnyScore(Series(v, col))
    THEN <<>>
    ELSE joinaggregate(ScoreTable(Series(v, col), Whole))

FeedbackMetrics == {"overall", "confidence", "comfortable"}

MomodMetrics == {"overall", "time_allocation", "conversation_flow", "engagement"}

-----------------------------------------------------------------------------
(* C13 *)

\* The buckets as specified: one per rounded value of the non-null
\* ratings, holding their number, over the number of non-null ratings.
IsDistribution(h, s, unit) ==
    LET nn == {i \in 1..Len(s) : s[i] # NaNScore}
    IN  /\ {h[k].label : k \in 1..Len(h)} = {Round(s[i], unit) : i \in nn}
        /\ \A k, l \in 1..Len(h) : h[k].label = h[l].label => k = l
        /\ \A k \in 1..Len(h) :
               /\ h[k].count = Cardinality({i \in nn : Round(s[i], unit) = h[k].label})
               /\ h[k].total = Cardinality(nn)
        /\ Cardinality(nn) = 1 => (Len(h) = 1 /\ h[1].count = h[1].total)

\* C13: the distribution of a rating counts the rows of the view whose rating is
\* non-null, by rounded value, each bucket's share being its count over the
\* number of non-null ratings; a null rating adds to no bucket and not to the
\* denominator, and a single non-null rating has 100% of its bucket.
C13_DistributionOfNonNull ==
    /\ (page = "feedback" /\ ChartsDrawn) =>
           \A m \in FeedbackMetrics :
               IsDistribution(score_hist(view, m), Series(view, m), Tenth)
    /\ (page = "momod" /\ ChartsDrawn) =>
           \A m \in MomodMetrics :
               IsDistribution(dist(view, m), Series(view, m), Whole)

\* A view of two responses, one without a confidence rating: the confidence
\* chart has the other response's bucket alone, with 1 of 1.
C13_Witness ==
    /\ page = "feedback" /\ ChartsDrawn
    /\ Len(view.rows) = 2
    /\ \E i \in 1..2 : view.rows[i]["confidence"] = NaNScore
    /\ \E i \in 1..2 : view.rows[i]["overall"] = 425
    /\ Len(score_hist(view, "confidence")) = 1
    /\ score_hist(view, "confidence")[1].count = 1
    /\ score_hist(view, "confidence")[1].total = 1
    /\ \E k \in 1..Len(score_hist(view, "overall")) :
           score_hist(view, "overall")[k].label = 420

-----------------------------------------------------------------------------
(* Themes *)

\* Python str.split(sep) for a one-character separator.
RECURSIVE split(_, _)
split(s, sep) ==
    IF \A i \in 1..Len(s) : s[i] # sep THEN <<s>>
    ELSE LET i == CHOOSE k \in 1..Len(s) :
                      s[k] = sep /\ \A j \in 1..(k - 1) : s[j] # sep
         IN  <<SubSeq(s, 1, i - 1)>> \o split(SubSeq(s, i + 1, Len(s)), sep)

NonBlank(x) == StripText(x) # <<>>

\* [x.strip() for x in str(s).split(";") if x.strip()]
Tags(s) ==
    LET kept == SelectSeq(split(s, ";"), NonBlank)
    IN  [i \in 1..Len(kept) |-> StripText(kept[i])]

RECURSIVE Concat(_)
Concat(q) == IF q = <<>> THEN <<>> ELSE Head(q) \o Concat(Tail(q))

\* The tags the two loops of lines 263-265 visit, in order.
TagsOfView(v) ==
    LET view_themes == dropna(Series(v, "themes"))
    IN  Concat([i \in 1..Len(view_themes) |-> Tags(view_themes[i])])

\* theme_counts: a dict keeps its keys in the order they were first inserted.
theme_counts(v) == Counted(TagsOfView(v), FirstSeen(TagsOfView(v)))

\* An insertion that puts x before the items of equal count.
RECURSIVE InsertByCount_before_ties(_, _)
InsertByCount_before_ties(x, q) ==
    IF q = <<>> THEN <<x>>
    ELSE IF x.count >= Head(q).count THEN <<x>> \o q
    ELSE <<Head(q)>> \o InsertByCount_before_ties(x, Tail(q))

\* x goes behind every item whose count is not smaller.
RECURSIVE InsertByCount(_, _)
InsertByCount(x, q) ==
    IF q = <<>> THEN <<x>>
    ELSE IF x.count > Head(q).count THEN <<x>> \o q
    ELSE <<Head(q)>> \o InsertByCount(x, Tail(q))

\* sorted(items, key=lambda x: -x[1]): Python's sort is stable.
RECURSIVE sorted(_)
sorted(q) ==
    IF q = <<>> THEN <<>>
    ELSE InsertByCount(q[Len(q)], sorted(SubSeq(q, 1, Len(q) - 1)))

\* Line 266: the frequency table of the themes.
theme_df(v) == sorted(theme_counts(v))

-----------------------------------------------------------------------------
(* C14 *)

\* The pieces of a themes text between its separators, as position pairs.
Cuts(s) == {0, Len(s) + 1} \cup {i \in 1..Len(s) : s[i] = ";"}

PieceSpans(s) ==
    {sp \in Cuts(s) \X Cuts(s) :
        sp[1] < sp[2] /\ \A c \in Cuts(s) : ~(sp[1] < c /\ c < sp[2])}

PieceAt(s, sp) == StripText(SubSeq(s, sp[1] + 1, sp[2] - 1))

\* Every occurrence of a tag in the view: row position, place in the field.
TagOccurrences(v) ==
    {o \in UNION {{<<i, sp>> : sp \in PieceSpans(v.rows[i]["themes"])} :
                     i \in {k \in 1..Len(v.rows) : NotNa(v.rows[k]["themes"])}} :
        PieceAt(v.rows[o[1]]["themes"], o[2]) # <<>>}

TagAt(v, o) == PieceAt(v.rows[o[1]]["themes"], o[2])

Before(o1, o2) == o1[1] < o2[1] \/ (o1[1] = o2[1] /\ o1[2][1] < o2[2][1])

\* Tag t was first seen before tag u.
SeenBefore(v, t, u) ==
    \E o1 \in TagOccurrences(v) :
        /\ TagAt(v, o1) = t
        /\ \A o2 \in TagOccurrences(v) : TagAt(v, o2) = u => Before(o1, o2)

PacingContentPacing == Pacing \o <<";", " ">> \o Content \o <<" ", ";">> \o Pacing

\* C14: the themes table lists each distinct tag of the view once (the trimmed,
\* non-empty pieces between ";" of the non-null themes fields) with its number
\* of occurrences, by count descending and, for equal counts, in the order the
\* tags were first seen; "Pacing; Content ;Pacing" alone gives Pacing 2,
\* Content 1.
C14_ThemeFrequencies ==
    (page = "feedback" /\ ChartsDrawn) =>
        LET df == theme_df(view)
        IN  /\ {df[k].label : k \in 1..Len(df)} =
                   {TagAt(view, o) : o \in TagOccurrences(view)}
            /\ \A k, l \in 1..Len(df) : df[k].label = df[l].label => k = l
            /\ \A k \in 1..Len(df) :
                   df[k].count =
                       Cardinality({o \in TagOccurrences(view) :
                                       TagAt(view, o) = df[k].label})
            /\ \A k, l \in 1..Len(df) :
                   k < l =>
                       \/ df[k].count > df[l].count
                       \/ /\ df[k].count = df[l].count
                          /\ SeenBefore(view, df[k].label, df[l].label)
            /\ Series(view, "themes") = <<PacingContentPacing>> =>
                   df = <<[label |-> Pacing, count |-> 2],
                          [label |-> Content, count |-> 1]>>

\* A view of two responses, the second with the example's field, the first
\* with one more Pacing and one more Content: Pacing 3, then Content 2.
C14_Witness ==
    /\ page = "feedback" /\ ChartsDrawn
    /\ Len(view.rows) = 2
    /\ view.rows[2]["themes"] = PacingContentPacing
    /\ Len(theme_df(view)) = 2
    /\ theme_df(view)[1].label = Pacing
    /\ theme_df(view)[2] = [label |-> Content, count |-> 2]

-----------------------------------------------------------------------------
(* Ratings over time *)

\* view.melt(id_vars=..., value_vars=..., var_name="metric",
\* value_name="score"): for each value column in turn, one row per view row.
melt(v, id_vars, value_vars) ==
    Concat([k \in 1..Len(value_vars) |->
               [i \in 1..Len(v.rows) |->
                   [c \in id_vars \cup {"metric", "score"} |->
                       IF c = "metric" THEN value_vars[k]
                       ELSE IF c = "score" THEN v.rows[i][value_vars[k]]
                       ELSE v.rows[i][c]]]])

\* DataFrame.dropna() on the melted table: a row with a missing id column or a
\* missing score is dropped.
dropna_any(q, id_vars) ==
    LET Whole_row(r) == r["score"] # NaNScore /\ \A c \in id_vars : NotNa(r[c])
    IN  SelectSeq(q, Whole_row)

\* 2_Session_Feedback.py lines 179-183; no chart when the guard fails.
melted_feedback(v) ==
    IF \E i \in 1..Len(v.rows) : NotNa(v.rows[i]["date"])
    THEN dropna_any(melt(v, {"date", "session", "session_day"},
                         <<"overall", "confidence", "comfortable">>),
                    {"date", "session", "session_day"})
    ELSE <<>>

\* 3_Moderator_Feedback.py lines 143-150.
melted_momod(v) ==
    IF \E i \in 1..Len(v.rows) : NotNa(v.rows[i]["session_label"])
    THEN dropna_any(melt(v, {"session_label", "date_parsed", "session_day"},
                         <<"overall", "time_allocation", "conversation_flow",
                           "engagement">>),
                    {"session_label", "date_parsed", "session_day"})
    ELSE <<>>

\* The chart's table, its x field and its sort field on the page being shown.
melted == IF page = "momod" THEN melted_momod(view) ELSE melted_feedback(view)

XField == IF page = "momod" THEN "session_label" ELSE "session"

DateField == IF page = "momod" THEN "date_parsed" ELSE "date"

RECURSIVE SumScore(_)
SumScore(q) == IF q = <<>> THEN 0 ELSE Head(q)["score"] + SumScore(Tail(q))

\* y = "mean(score):Q" of the point at (label, metric): the pair of the sum of
\* the scores and their number, <<0, 0>> when the chart has no such point.
mean_score(q, x, label, metric) ==
    LET At(r) == r[x] = label /\ r["metric"] = metric
    IN  <<SumScore(SelectSeq(q, At)), Len(SelectSeq(q, At))>>

\* min(date) of the rows of a group: dates are the texts read_csv returned.
min_date(q, x, date, label) ==
    CHOOSE d \in {q[i][date] : i \in {k \in 1..Len(q) : q[k][x] = label}} :
        \A i \in 1..Len(q) : q[i][x] = label => ~TextLess(q[i][date], d)

\* sort=alt.EncodingSortField(field=date, op="min", order="ascending"): the
\* orders of the x axis, groups of equal earliest date in either order.
x_order(q, x, date) ==
    LET labels == {q[i][x] : i \in 1..Len(q)}
    IN  {o \in [1..Cardinality(labels) -> labels] :
            /\ \A i, j \in 1..Cardinality(labels) : o[i] = o[j] => i = j
            /\ \A i, j \in 1..Cardinality(labels) :
                   i < j => ~TextLess(min_date(q, x, date, o[j]),
                                      min_date(q, x, date, o[i]))}

-----------------------------------------------------------------------------
(* C19 *)

OnFeedbackPages == page \in {"feedback", "momod"} /\ ChartsDrawn

MetricsOf(p) == IF p = "momod" THEN MomodMetrics ELSE FeedbackMetrics

\* The view rows of a session that have a rating for the metric.
RatedRows(label, metric) ==
    {i \in 1..Len(view.rows) :
        view.rows[i][XField] = label /\ view.rows[i][metric] # NaNScore}

RECURSIVE SumOver(_, _)
SumOver(rows, metric) ==
    IF rows = {} THEN 0
    ELSE LET i == CHOOSE k \in rows : TRUE
         IN  view.rows[i][metric] + SumOver(rows \ {i}, metric)

\* C19: the mean the chart shows for a session and a rating metric is the mean
\* over exactly the view rows of that session whose rating is non-null: a row
\* without the rating is left out, and a row with the rating is in, whatever
\* its date or session day.
C19_MeanOverRatedRows ==
    OnFeedbackPages =>
        \A label \in Unique(view, XField), metric \in MetricsOf(page) :
            mean_score(melted, XField, label, metric) =
                <<SumOver(RatedRows(label, metric), metric),
                  Cardinality(RatedRows(label, metric))>>

-----------------------------------------------------------------------------
(* C15 *)

\* The view with its rows in the order p.
Permuted(v, p) == [v EXCEPT !.rows = [i \in 1..Len(v.rows) |-> v.rows[p[i]]]]

melted_of(v) == IF page = "momod" THEN melted_momod(v) ELSE melted_feedback(v)

Position(o, label) == CHOOSE i \in 1..Len(o) : o[i] = label

\* The earliest date among the view rows of a session, NaN when none has one.
EarliestInView(label) ==
    LET ds == {view.rows[i][DateField] :
                  i \in {k \in 1..Len(view.rows) : view.rows[k][XField] = label}}
                  \ {NaN}
    IN  IF ds = {} THEN NaN
        ELSE CHOOSE d \in ds : \A e \in ds : ~TextLess(e, d)

\* C15: the x axis of the ratings chart lists the sessions by their earliest
\* date ascending, and every reordering of the view's rows gives that same
\* list.
C15_OrderByEarliestDate ==
    OnFeedbackPages =>
        /\ \A o \in x_order(melted, XField, DateField) :
               \A g, h \in Range(o) :
                   (/\ NotNa(EarliestInView(g)) /\ NotNa(EarliestInView(h))
                    /\ TextLess(EarliestInView(g), EarliestInView(h)))
                       => Position(o, g) < Position(o, h)
        /\ \A p \in Perms(Len(view.rows)) :
               \A o1 \in x_order(melted, XField, DateField),
                  o2 \in x_order(melted_of(Permuted(view, p)), XField, DateField) :
                   o1 = o2

-----------------------------------------------------------------------------
(* Top participants *)

\* Line 282: .head(10)
TopN == 10

\* The (participant_key, display_name) pairs of the view; groupby leaves out a
\* row with a missing key column.
Identities(v) ==
    {<<v.rows[i]["participant_key"], v.rows[i]["display_name"]>> :
        i \in {k \in 1..Len(v.rows) :
                  NotNa(v.rows[k]["participant_key"]) /\ NotNa(v.rows[k]["display_name"])}}

PairLess(a, b) == TextLess(a[1], b[1]) \/ (a[1] = b[1] /\ TextLess(a[2], b[2]))

RECURSIVE SumSessions(_, _)
SumSessions(v, rows) ==
    IF rows = {} THEN 0
    ELSE LET i == CHOOSE k \in rows : TRUE
         IN  v.rows[i]["sessions_count"] + SumSessions(v, rows \ {i})

\* groupby(["participant_key", "display_name"])["sessions_count"].sum()
\* .reset_index(): one row per pair, in ascending order of the pair.
groupby_sum(v) ==
    LET ids  == Identities(v)
        keys == CHOOSE q \in [1..Cardinality(ids) -> ids] :
                    \A i, j \in 1..Cardinality(ids) : i < j => PairLess(q[i], q[j])
    IN  [i \in 1..Len(keys) |->
            [label |-> keys[i],
             count |-> SumSessions(v, {k \in 1..Len(v.rows) :
                                          /\ v.rows[k]["participant_key"] = keys[i][1]
                                          /\ v.rows[k]["display_name"] = keys[i][2]})]]

\* Lines 278-283: top_people, in each order the sort can leave it.
top_people(v) == {head(o, TopN) : o \in sort_values_count(groupby_sum(v))}

-----------------------------------------------------------------------------
(* C16 *)

\* The tables of grouped counts of the page being shown, each with the column
\* it groups, missing values filled the way the page fills them.
GroupedCounts ==
    CASE page = "participants" ->
             {<<src(view),
                [i \in 1..Len(view.rows) |->
                    FillNa(view.rows[i]["discovery_source"], Unknown)]>>,
              <<stype_df(view),
                [i \in 1..Len(view.rows) |->
                    NormText[view.rows[i]["session_type_norm"]]]>>}
      [] page = "feedback" -> {<<sent_counts(view), Series(view, "sentiment")>>}
      [] page = "momod"    -> {<<mod_counts(view), Series(view, "moderator_name")>>}

\* C16: a table of grouped counts has one row per distinct group value, with the
\* number of view rows of that group, by count descending, groups of equal
\* count in ascending order of their label.
C16_GroupedCountOrder ==
    ChartsDrawn =>
        \A t \in GroupedCounts :
            \A o \in t[1] :
                /\ {o[k].label : k \in 1..Len(o)} = Range(t[2]) \ {NaN}
                /\ \A k, l \in 1..Len(o) : o[k].label = o[l].label => k = l
                /\ \A k \in 1..Len(o) : o[k].count = CountOf(t[2], o[k].label)
                /\ \A k, l \in 1..Len(o) :
                       k < l =>
                           \/ o[k].count > o[l].count
                           \/ /\ o[k].count = o[l].count
                              /\ TextLess(o[k].label, o[l].label)

-----------------------------------------------------------------------------
(* C17 *)

RowsOfIdentity(id) ==
    {i \in 1..Len(view.rows) :
        /\ view.rows[i]["participant_key"] = id[1]
        /\ view.rows[i]["display_name"] = id[2]}

\* C17: the top participants table has one entry per identity of the view, with
\* that identity's number of view rows, keeps the 10 largest by count
\* descending, and orders and cuts equal counts by ascending participant_key;
\* a row without a participant_key is in no entry.
C17_TopParticipants ==
    (page = "participants" /\ ChartsDrawn) =>
        \A o \in top_people(view) :
            /\ {o[k].label : k \in 1..Len(o)} \subseteq Identities(view)
            /\ \A k, l \in 1..Len(o) : o[k].label = o[l].label => k = l
            /\ Len(o) = Min(10, Cardinality(Identities(view)))
            /\ \A k \in 1..Len(o) :
                   /\ NotNa(o[k].label[1])
                   /\ o[k].count = Cardinality(RowsOfIdentity(o[k].label))
            /\ \A k, l \in 1..Len(o) :
                   k < l =>
                       \/ o[k].count > o[l].count
                       \/ /\ o[k].count = o[l].count
                          /\ ~TextLess(o[l].label[1], o[k].label[1])
            /\ \A id \in Identities(view) \ {o[k].label : k \in 1..Len(o)} :
                   \A k \in 1..Len(o) :
                       \/ o[k].count > Cardinality(RowsOfIdentity(id))
                       \/ /\ o[k].count = Cardinality(RowsOfIdentity(id))
                          /\ ~TextLess(id[1], o[k].label[1])

-----------------------------------------------------------------------------
(* KPIs *)

\* What st.metric is handed: the placeholder "-", a text, or a number, given as
\* the fraction num / den.  A number with den = 0 is the float NaN, the mean of
\* no values, which the f-string prints as "nan".
Dash == [shown |-> "-", num |-> 0, den |-> 1]

Number(n, d) == [shown |-> "number", num |-> n, den |-> d]

Shown(kind) == [shown |-> kind, num |-> 0, den |-> 1]

RECURSIVE SumPresent(_)
SumPresent(q) ==
    IF q = <<>> THEN 0
    ELSE (IF Head(q) = NaNScore THEN 0 ELSE Head(q)) + SumPresent(Tail(q))

\* Series.mean(): over the non-missing values.
mean(q) == Number(SumPresent(q), Cardinality({i \in 1..Len(q) : q[i] # NaNScore}))

\* f"{view[col].mean():.2f}" if view[col].notna().any() else "-"
avg(v, col) == IF AnyScore(Series(v, col)) THEN mean(Series(v, col)) ELSE Dash

\* Series.eq(value).mean(): the share of all rows of the series that equal it.
eq_mean(q, value) == Number(CountOf(q, value), Len(q))

\* 2_Session_Feedback.py lines 84-85.
share_yes(v) ==
    IF v.rows # <<>> THEN eq_mean(Series(v, "interested_next_norm"), <<"Y", "e", "s">>)
    ELSE Dash

\* The metrics of a run, in page order.
Kpis(v) ==
    CASE page = "participants" ->
             <<Number(Len(v.rows), 1),
               Number(nunique(v), 1),
               Number(Cardinality(Unique(v, "sessions_joining")), 1),
               IF v.rows # <<>> THEN Shown("text") ELSE Dash>>
      [] page = "feedback" ->
             <<Number(Len(v.rows), 1),
               avg(v, "overall"), avg(v, "confidence"), avg(v, "comfortable"),
               share_yes(v),
               Number(Len(dropna(Series(v, "suggestions"))), 1),
               eq_mean(Series(v, "sentiment"), Positive),
               eq_mean(Series(v, "sentiment"), Negative),
               eq_mean(Series(v, "sentiment"), Neutral)>>
      [] page = "momod" ->
             <<Number(Len(v.rows), 1),
               avg(v, "overall"), avg(v, "time_allocation"),
               avg(v, "conversation_flow"), avg(v, "engagement")>>

\* The tables of a run that have an order left open, and those that have not.
OpenTables(v) ==
    CASE page = "participants" -> src(v) \cup stype_df(v) \cup mot(v) \cup top_people(v)
      [] page = "feedback"     -> sent_counts(v)
      [] page = "momod"        -> mod_counts(v)

Tables(v) ==
    CASE page = "participants" -> {}
      [] page = "feedback" ->
             {score_hist(v, m) : m \in FeedbackMetrics}
                 \cup {melted_feedback(v), theme_df(v)}
      [] page = "momod" ->
             {dist(v, m) : m \in MomodMetrics} \cup {melted_momod(v)}

-----------------------------------------------------------------------------
(* C18 *)

\* C18: a run whose filtered view has no rows draws every table empty and shows
\* for every metric a defined number or the placeholder, never an undefined
\* number.
C18_EmptyViewDefined ==
    (ChartsDrawn /\ view.rows = <<>>) =>
        /\ \A t \in OpenTables(view) \cup Tables(view) : t = <<>>
        /\ \A k \in 1..Len(Kpis(view)) :
               Kpis(view)[k].shown = "number" => Kpis(view)[k].den # 0

-----------------------------------------------------------------------------
(* Suggestions table: the theme filter *)

\* all_themes, lines 299-304: the options of "Filter by theme" besides "All".
all_themes(v) == Range(TagsOfView(v))

AllSpace(s, a, b) == \A k \in a..b : IsSpace(s[k])

\* re.search(rf"(?:^|;\s*){re.escape(sel_theme)}(?:\s*;|$)", s): the theme, as
\* literal text, somewhere in s; before it the start of s or a ";" and blanks,
\* after it blanks and a ";" or the end of s.
Matches(s, sel_theme) ==
    \E i \in 1..(Len(s) - Len(sel_theme) + 1) :
        LET e == i + Len(sel_theme) - 1
        IN  /\ SubSeq(s, i, e) = sel_theme
            /\ \/ i = 1
               \/ \E j \in 1..(i - 1) : s[j] = ";" /\ AllSpace(s, j + 1, i - 1)
            /\ \/ e = Len(s)
               \/ \E k \in (e + 1)..Len(s) : s[k] = ";" /\ AllSpace(s, e + 1, k - 1)

\* Lines 315-320: the positions of the view the suggestions table keeps.
filtered(v, sel_theme, sel_sentiment) ==
    {i \in 1..Len(v.rows) :
        /\ sel_theme # AllText => Matches(FillNa(v.rows[i]["themes"], <<>>), sel_theme)
        /\ sel_sentiment # AllText => v.rows[i]["sentiment"] = sel_sentiment}

-----------------------------------------------------------------------------
(* C20 *)

\* C20: for every theme offered by the filter and every row of the view, the
\* suggestions table keeps the row exactly when the theme is one of the tags of
\* the row's themes field (the trimmed, non-empty pieces between ";"), blanks
\* at the start or the end of the field included.
C20_FilterAgreesWithTags ==
    (page = "feedback" /\ ChartsDrawn) =>
        \A sel_theme \in all_themes(view), i \in 1..Len(view.rows) :
            i \in filtered(view, sel_theme, AllText) <=>
                /\ NotNa(view.rows[i]["themes"])
                /\ \E sp \in PieceSpans(view.rows[i]["themes"]) :
                       PieceAt(view.rows[i]["themes"], sp) = sel_theme

-----------------------------------------------------------------------------
(* C11 *)

\* C11: every signup row is kept by the loader; when its timestamp cell is
\* missing or is no date, the loaded row has a null timestamp and a null
\* (absent) month, and when the cell is a date the month is that of the date.
C11_MonthOfTimestamp ==
    (page = "participants" /\ HasRun(PARTICIPANTS_PATH)) =>
        \A j \in 1..Len(csv.rows) :
            /\ \E r \in DataRows : r["index"] = j - 1
            /\ \A r \in DataRows :
                   r["index"] = j - 1 =>
                       LET ts == to_datetime(RawOf(r)["Timestamp"])
                       IN  /\ r["timestamp"] = ts
                           /\ IF ts = NaT THEN IsNa(r["month"])
                              ELSE r["month"] = <<Digits[ts[1] + 1]>>

====
